---------------------------- MODULE Spec2Model ----------------------------
(***************************************************************************)
(* A model of nonrad/utils.py: the configuration-coordinate helpers        *)
(* (get_cc_structures, get_dQ, get_Q_from_struct, get_PES_from_vaspruns),  *)
(* the harmonic fit (get_omega_from_PES), the WSWQ scanner (_read_WSWQ)    *)
(* and the overlap-file matrix element (get_Wif_from_WSWQ).                *)
(*                                                                         *)
(* Real numbers are modelled exactly: coordinates, masses, energies and    *)
(* overlaps are integers, a quotient is a pair numerator/denominator, a    *)
(* 6-decimal rounded value is an integer count of 1e-6, and dQ (a square   *)
(* root) is carried as its radicand.                                       *)
(***************************************************************************)
EXTENDS Integers, Sequences, FiniteSets, TLC

VARIABLES
    ground,     \* the ground-state structure of the call
    excited,    \* the excited-state structure of the call
    op,         \* the function being called, "idle" between calls
    arg,        \* the remaining arguments of the call
    ret,        \* what the call gave back: [status, value]
    scanned,    \* _read_WSWQ: the lines of the file consumed so far
    wswq,       \* _read_WSWQ: the table built so far (local wswq)
    current,    \* _read_WSWQ: the active (spin, kpoint) key (local current)
    pstatus     \* _read_WSWQ: "scanning", "done" or "error"

vars == <<ground, excited, op, arg, ret, scanned, wswq, current, pstatus>>

(***************************************************************************)
(* Generic helpers                                                         *)
(***************************************************************************)
None == <<>>

NoRet == [status |-> "none", value |-> None]

Ok(v) == [status |-> "ok", value |-> v]

Raise(e) == [status |-> "error", value |-> e]

EmptyDict == [x \in {} |-> None]

SetMax(S) == CHOOSE x \in S : \A y \in S : y <= x

SetMin(S) == CHOOSE x \in S : \A y \in S : x <= y

Abs(x) == IF x < 0 THEN -x ELSE x

Sign(x) == IF x < 0 THEN -1 ELSE IF x > 0 THEN 1 ELSE 0

SeqsUpTo(S, n) == UNION {[1..m -> S] : m \in 0..n}

(***************************************************************************)
(* _read_WSWQ: the WSWQ scanner                                            *)
(***************************************************************************)
MaxLines == 4

\* (spin, kpoint) pairs a section marker can carry
Keys == {<<1, 1>>, <<1, 2>>}

\* (i, j) band pairs a data line can carry
BandPairs == {<<1, 2>>, <<2, 2>>}

\* complex values <<re, im>> a data line can carry (integer magnitudes 5, 2)
Overlaps == {<<3, -4>>, <<0, 2>>}

\* A line is what the two regular expressions extract from it: whether the
\* marker pattern matches and its two integers, whether the data pattern
\* matches, its two integers and its two number tokens, and whether float()
\* accepts the tokens (the token class [0-9\-.]+ also matches "1-2" or "..").
MarkerLine(sk) ==
    [marker |-> TRUE, sk |-> sk, data |-> FALSE, ij |-> None, z |-> None,
     floatable |-> TRUE]

DataLine(ij, z) ==
    [marker |-> FALSE, sk |-> None, data |-> TRUE, ij |-> ij, z |-> z,
     floatable |-> TRUE]

\* a line on which both patterns match
BothLine ==
    [marker |-> TRUE, sk |-> <<1, 1>>, data |-> TRUE, ij |-> <<1, 2>>,
     z |-> <<0, 2>>, floatable |-> TRUE]

\* a line on which neither pattern matches
OtherLine ==
    [marker |-> FALSE, sk |-> None, data |-> FALSE, ij |-> None, z |-> None,
     floatable |-> TRUE]

\* a data line whose number tokens float() rejects
BadDataLine ==
    [marker |-> FALSE, sk |-> None, data |-> TRUE, ij |-> <<1, 2>>,
     z |-> None, floatable |-> FALSE]

Lines ==
    {MarkerLine(sk) : sk \in Keys}
        \cup {DataLine(ij, z) : ij \in BandPairs, z \in Overlaps}
        \cup {BothLine, OtherLine, BadDataLine}

\* wswq[current] = {}, keeping the mappings already stored under other keys
StoreMarkerKeep(w, key) ==
    [x \in DOMAIN w \cup {key} |-> IF x \in DOMAIN w THEN w[x] ELSE EmptyDict]

StoreMarker(w, key) ==
    [x \in DOMAIN w \cup {key} |-> IF x = key THEN EmptyDict ELSE w[x]]

\* wswq[current][(i, j)] = z ; a missing key current is a KeyError
StoreDataDefault(w, cur, ij, z) ==
    LET old == IF cur \in DOMAIN w THEN w[cur] ELSE EmptyDict
    IN  Ok([x \in DOMAIN w \cup {cur} |->
              IF x = cur
              THEN [y \in DOMAIN old \cup {ij} |->
                      IF y = ij THEN z ELSE old[y]]
              ELSE w[x]])

StoreData(w, cur, ij, z) ==
    IF cur \notin DOMAIN w
    THEN Raise("KeyError")
    ELSE Ok([x \in DOMAIN w |->
               IF x = cur
               THEN [y \in DOMAIN w[cur] \cup {ij} |->
                       IF y = ij THEN z ELSE w[cur][y]]
               ELSE w[x]])

\* the body of the loop over the lines: one line against the scan state
ScanLine(st, line) ==
    IF line.marker
    THEN [wswq |-> StoreMarker(st.wswq, line.sk), current |-> line.sk,
          status |-> "scanning"]
    ELSE IF line.data
    THEN IF ~line.floatable
         THEN [st EXCEPT !.status = "error"]
         ELSE LET r == StoreData(st.wswq, st.current, line.ij, line.z)
              IN  IF r.status = "error"
                  THEN [st EXCEPT !.status = "error"]
                  ELSE [st EXCEPT !.wswq = r.value]
    ELSE st

ScanStart == [wswq |-> EmptyDict, current |-> None, status |-> "scanning"]

RECURSIVE ScanAll(_, _)
ScanAll(st, ls) ==
    IF ls = <<>> \/ st.status = "error"
    THEN st
    ELSE ScanAll(ScanLine(st, Head(ls)), Tail(ls))

\* the whole function applied to a file
read_WSWQ(ls) ==
    LET st == ScanAll(ScanStart, ls)
    IN  IF st.status = "error" THEN Raise("ParseError") ELSE Ok(st.wswq)

ScanInit ==
    /\ scanned = <<>>
    /\ wswq = EmptyDict
    /\ current = None
    /\ pstatus = "scanning"

GeomIdle ==
    /\ ground = <<>>
    /\ excited = <<>>
    /\ op = "idle"
    /\ arg = None
    /\ ret = NoRet

\* for line in f: ...
ReadLine ==
    /\ pstatus = "scanning"
    /\ Len(scanned) < MaxLines
    /\ \E line \in Lines :
         LET st == ScanLine([wswq |-> wswq, current |-> current,
                             status |-> "scanning"], line)
         IN  /\ scanned' = Append(scanned, line)
             /\ wswq' = st.wswq
             /\ current' = st.current
             /\ pstatus' = st.status
             /\ ret' = IF st.status = "error" THEN Raise("ParseError") ELSE ret
    /\ UNCHANGED <<ground, excited, op, arg>>

\* end of stream: return wswq
ReturnTable ==
    /\ pstatus = "scanning"
    /\ pstatus' = "done"
    /\ ret' = Ok(wswq)
    /\ UNCHANGED <<ground, excited, op, arg, scanned, wswq, current>>

InitWSWQ == ScanInit /\ GeomIdle

NextWSWQ == ReadLine \/ ReturnTable

SpecWSWQ == InitWSWQ /\ [][NextWSWQ]_vars

--------------------------------------------------------------------------
(***************************************************************************)
(* Properties of the scanner                                               *)
(***************************************************************************)
MarkerIdx(s) == {n \in 1..Len(s) : s[n].marker}

KeysSeen(s) == {s[n].sk : n \in MarkerIdx(s)}

LastMarker(s, key) == SetMax({n \in MarkerIdx(s) : s[n].sk = key})

NextMarker(s, m) == SetMin({n \in MarkerIdx(s) : n > m} \cup {Len(s) + 1})

\* the data lines between the last marker of key and the next marker
Section(s, key) ==
    LET m == LastMarker(s, key)
    IN  {n \in (m + 1)..(NextMarker(s, m) - 1) : s[n].data}

SectionMap(s, key) ==
    LET D == Section(s, key)
    IN  [ij \in {s[n].ij : n \in D} |->
           s[SetMax({n \in D : s[n].ij = ij})].z]

\* C1: as long as the scan has not ended in an error, the table has exactly
\* one key per distinct marker seen, and under each key exactly the (i, j)
\* entries of the data lines between the last marker of that key and the
\* next marker (a repeated (i, j) keeps the later line's value); the active
\* context is the key of the most recent marker.
C1_TableIsSections ==
    pstatus # "error" =>
        /\ DOMAIN wswq = KeysSeen(scanned)
        /\ \A key \in KeysSeen(scanned) : wswq[key] = SectionMap(scanned, key)
        /\ current = IF MarkerIdx(scanned) = {} THEN None
                     ELSE scanned[SetMax(MarkerIdx(scanned))].sk
        /\ (pstatus = "done" => ret = Ok(wswq))

C1_Witness ==
    /\ pstatus = "done"
    /\ Cardinality(DOMAIN wswq) = 2
    /\ \E n \in 1..Len(scanned) : ~scanned[n].marker /\ ~scanned[n].data
    /\ \E key \in DOMAIN wswq : wswq[key] # EmptyDict

\* a data line that no section marker precedes
DataBeforeMarker(s) ==
    \E n \in 1..Len(s) :
        /\ s[n].data /\ ~s[n].marker
        /\ \A m \in 1..(n - 1) : ~s[m].marker

\* C2: a data line scanned before any section marker ends the parse in an
\* error, no table is returned, and nothing is ever stored under the null
\* context.
C2_DataBeforeMarkerFails ==
    /\ None \notin DOMAIN wswq
    /\ DataBeforeMarker(scanned) =>
         /\ pstatus = "error"
         /\ ret.status = "error"

C2_Witness ==
    /\ DataBeforeMarker(scanned)
    /\ scanned[Len(scanned)].floatable
    /\ Len(scanned) >= 2
    /\ pstatus = "error"

--------------------------------------------------------------------------
(***************************************************************************)
(* Structures, get_dQ, get_Q_from_struct                                   *)
(***************************************************************************)
MaxSites == 2

\* An interpolation fraction t is the integer k with t = k / TDen.
TDen == 3

\* np.round(possible_x, 6)
Decimals == 6

Scale == 10 ^ Decimals

Axes == 1..3

\* positions of the sites of the endpoint structures; multiples of TDen, so
\* that every image at a fraction k / TDen has integer coordinates
EndPositions == {<<0, 0, 0>>, <<TDen, 0, 0>>, <<TDen, TDen, TDen>>}

\* positions off the endpoint lattice, for structures off the linear path
OffPositions == {<<1, 2, 0>>, <<2, 2, 1>>}

\* the species at an index is the same in every structure of a call; its
\* atomic mass
MassAt(i) == i

Struct(ps) == [i \in 1..Len(ps) |-> [coords |-> ps[i], mass |-> MassAt(i)]]

EndStructs == {Struct(ps) : ps \in SeqsUpTo(EndPositions, MaxSites)}

AnyStructs ==
    {Struct(ps) : ps \in SeqsUpTo({<<0, 0, 0>>} \cup OffPositions, MaxSites)}

\* the fractions k / TDen structures are interpolated at
Ts == (-1)..(TDen + 1)

\* distance cutoffs tol, in the unit of the coordinates
Tols == {1, 4}

Min2(a, b) == IF a <= b THEN a ELSE b

RECURSIVE SumTo(_, _)
\* the sum of f[1] .. f[n]
SumTo(f, n) == IF n = 0 THEN 0 ELSE SumTo(f, n - 1) + f[n]

\* site.distance(other) ** 2
Dist2(a, b) ==
    SumTo([x \in Axes |-> (a.coords[x] - b.coords[x]) * (a.coords[x] - b.coords[x])], 3)

\* the exact square root of n, carried as its radicand
Sqrt(n) == [radicand |-> n]

\* np.sqrt(np.sum(... for x in zip(ground, excited))): zip stops at the
\* shorter of the two structures
get_dQ(g, e) ==
    LET n == Min2(Len(g), Len(e))
    IN  Sqrt(SumTo([i \in 1..n |-> Dist2(g[i], e[i]) * g[i].mass], n))

\* Floating-point values of the pool: <<class, v>> with class 0 = -inf,
\* 1 = finite (v counts 1e-6 once rounded), 2 = +inf, 3 = nan.
NInf == <<0, 0>>
Fin(v) == <<1, v>>
PInf == <<2, 0>>
NaN == <<3, 0>>

\* round-half-even of n / d, d > 0
RoundHalfEven(n, d) ==
    LET q == n \div d
        r == n - q * d
    IN  IF 2 * r < d THEN q
        ELSE IF 2 * r > d THEN q + 1
        ELSE IF q % 2 = 0 THEN q ELSE q + 1

\* a division guarded to give 0 on a zero denominator
RoundedQuotientGuarded(num, den) ==
    IF den = 0 THEN Fin(0)
    ELSE IF den > 0
    THEN Fin(RoundHalfEven(num * Scale, den))
    ELSE Fin(RoundHalfEven((-num) * Scale, -den))

\* np.round(num / den, 6) of the elementwise division of two coordinates
RoundedQuotient(num, den) ==
    IF den = 0
    THEN IF num = 0 THEN NaN ELSE IF num > 0 THEN PInf ELSE NInf
    ELSE IF den > 0
    THEN Fin(RoundHalfEven(num * Scale, den))
    ELSE Fin(RoundHalfEven((-num) * Scale, -den))

\* the order np.sort puts floats in: nan last
FloatLess(a, b) == a[1] < b[1] \/ (a[1] = b[1] /\ a[2] < b[2])

\* a == b on floats: nan equals nothing
FloatEq(a, b) == a = b /\ a[1] # 3

RECURSIVE Insert(_, _)
Insert(x, s) ==
    IF s = <<>> THEN <<x>>
    ELSE IF FloatLess(Head(s), x) THEN <<Head(s)>> \o Insert(x, Tail(s))
    ELSE <<x>> \o s

RECURSIVE Sort(_)
\* np.sort
Sort(s) == IF s = <<>> THEN <<>> ELSE Insert(Head(s), Sort(Tail(s)))

RECURSIVE GroupBy(_)
\* itertools.groupby(s) with each group replaced by its length:
\* a sequence of <<key, len(group)>>
GroupBy(s) ==
    IF s = <<>> THEN <<>>
    ELSE LET rest == GroupBy(Tail(s))
         IN  IF rest # <<>> /\ FloatEq(Head(s), rest[1][1])
             THEN <<<<Head(s), rest[1][2] + 1>>>> \o Tail(rest)
             ELSE <<<<Head(s), 1>>>> \o rest

\* max keeping the last of the maximal groups
MaxLast(gs) ==
    IF gs = <<>> THEN Raise("ValueError")
    ELSE Ok(gs[SetMax({i \in 1..Len(gs) :
                \A j \in 1..Len(gs) : gs[j][2] <= gs[i][2]})][1])

\* max(groups, key=len): the first of the groups of maximal length; an
\* empty iterable is a ValueError
MaxByLen(gs) ==
    IF gs = <<>> THEN Raise("ValueError")
    ELSE Ok(gs[SetMin({i \in 1..Len(gs) :
                \A j \in 1..Len(gs) : gs[j][2] <= gs[i][2]})][1])

\* ground[i].distance(excited[i]) < tol, for tol >= 0
Closer(a, b, tol) == Dist2(a, b) < tol * tol

\* never skipping a site
SiteFractionsAll(g, e, s, i, tol) ==
    [x \in Axes |->
       RoundedQuotient(s[i].coords[x] - g[i].coords[x],
                       e[i].coords[x] - g[i].coords[x])]

\* the contribution of site i to possible_x (already rounded)
SiteFractions(g, e, s, i, tol) ==
    IF Closer(g[i], e[i], tol) THEN <<>>
    ELSE [x \in Axes |->
            RoundedQuotient(s[i].coords[x] - g[i].coords[x],
                            e[i].coords[x] - g[i].coords[x])]

RECURSIVE PoolTo(_, _, _, _, _)
\* possible_x after the first n sites of struct
PoolTo(g, e, s, n, tol) ==
    IF n = 0 THEN <<>>
    ELSE PoolTo(g, e, s, n - 1, tol) \o SiteFractions(g, e, s, n, tol)

\* dQ * x
Times(root, x) == [dQ |-> root, x |-> x]

get_Q_from_struct(g, e, s, tol) ==
    IF Len(s) > Min2(Len(g), Len(e))
    THEN Raise("IndexError")
    ELSE LET spossible_x == Sort(PoolTo(g, e, s, Len(s), tol))
             m == MaxByLen(GroupBy(spossible_x))
         IN  IF m.status = "error" THEN m
             ELSE Ok(Times(get_dQ(g, e), m.value))

(***************************************************************************)
(* Structure.interpolate and get_cc_structures                             *)
(***************************************************************************)
\* the image at fraction k / TDen: ground + t * (excited - ground) per site
Image(g, e, k) ==
    [i \in 1..Len(g) |->
       [coords |-> [x \in Axes |->
                      g[i].coords[x]
                        + (k * (e[i].coords[x] - g[i].coords[x])) \div TDen],
        mass |-> g[i].mass]]

\* ground.interpolate(excited, nimages=fractions): one image per fraction,
\* in order; structures of different lengths are a ValueError
Interpolate(g, e, ks) ==
    IF Len(g) # Len(e) THEN Raise("ValueError")
    ELSE Ok([n \in 1..Len(ks) |-> Image(g, e, ks[n])])

NonZero(k) == k # 0

\* displacements[displacements != 0.]
DropZeros(ds) == SelectSeq(ds, NonZero)

\* displacements + 1.
PlusOne(ds) == [n \in 1..Len(ds) |-> ds[n] + TDen]

\* the excited-side family taken at the displacements themselves
get_cc_structures_noshift(g, e, ds, remove_zero) ==
    LET d == IF remove_zero THEN DropZeros(ds) ELSE ds
        gs == Interpolate(g, e, d)
    IN  IF gs.status = "error" THEN gs
        ELSE Ok(<<gs.value, gs.value>>)

get_cc_structures(g, e, ds, remove_zero) ==
    LET d == IF remove_zero THEN DropZeros(ds) ELSE ds
        ground_structs == Interpolate(g, e, d)
        excited_structs == Interpolate(g, e, PlusOne(d))
    IN  IF ground_structs.status = "error" THEN ground_structs
        ELSE Ok(<<ground_structs.value, excited_structs.value>>)

--------------------------------------------------------------------------
(***************************************************************************)
(* Calls of get_dQ and get_Q_from_struct                                   *)
(***************************************************************************)
InitGeom ==
    /\ ScanInit
    /\ ground \in EndStructs
    /\ excited \in EndStructs
    /\ op = "idle"
    /\ arg = None
    /\ ret = NoRet

CallGetDQ ==
    /\ op = "idle"
    /\ op' = "get_dQ"
    /\ arg' = None
    /\ ret' = Ok(get_dQ(ground, excited))
    /\ UNCHANGED <<ground, excited, scanned, wswq, current, pstatus>>

\* get_Q_from_struct on any structure, with the smallest cutoff
CallGetQ ==
    /\ op = "idle"
    /\ \E s \in AnyStructs :
         /\ op' = "get_Q_from_struct"
         /\ arg' = [struct |-> s, tol |-> 1, onpath |-> FALSE, t |-> 0]
         /\ ret' = get_Q_from_struct(ground, excited, s, 1)
    /\ UNCHANGED <<ground, excited, scanned, wswq, current, pstatus>>

\* get_Q_from_struct on an image of the linear path, at fraction k / TDen
CallGetQOnPath ==
    /\ op = "idle"
    /\ Len(ground) = Len(excited)
    /\ \E k \in Ts, tol \in Tols :
         /\ op' = "get_Q_from_struct"
         /\ arg' = [struct |-> Image(ground, excited, k), tol |-> tol,
                    onpath |-> TRUE, t |-> k]
         /\ ret' = get_Q_from_struct(ground, excited,
                                     Image(ground, excited, k), tol)
    /\ UNCHANGED <<ground, excited, scanned, wswq, current, pstatus>>

NextGeom == CallGetDQ \/ CallGetQ \/ CallGetQOnPath

SpecGeom == InitGeom /\ [][NextGeom]_vars

\* C3: with site counts that are not all equal, get_dQ and
\* get_Q_from_struct fail with an error instead of returning a number.
C3_CountMismatchFails ==
    \/ op = "get_dQ" /\ Len(ground) # Len(excited)
    \/ /\ op = "get_Q_from_struct"
       /\ ~(Len(ground) = Len(excited) /\ Len(arg.struct) = Len(ground))
    => ret.status = "error"

\* some site of the pair moves by at least tol
SomeSiteMoves(g, e, tol) ==
    \E i \in 1..Min2(Len(g), Len(e)) : ~Closer(g[i], e[i], tol)

\* C5: for compatible ground and excited with a site moving by at least
\* tol, the image at fraction t has Q = round(t, 6) * dQ(ground, excited),
\* endpoints t = 0 and t = 1 included, also when axes of moving sites stand
\* still.
C5_RoundTrip ==
    op = "get_Q_from_struct" /\ arg.onpath
        /\ SomeSiteMoves(ground, excited, arg.tol)
    => ret = Ok(Times(get_dQ(ground, excited),
                      Fin(RoundHalfEven(arg.t * Scale, TDen))))

C5_Witness ==
    /\ op = "get_Q_from_struct" /\ arg.onpath
    /\ arg.t = 1
    /\ \E i \in 1..Len(ground) :
         /\ ~Closer(ground[i], excited[i], arg.tol)
         /\ \E x \in Axes : ground[i].coords[x] = excited[i].coords[x]
    /\ ret.status = "ok"
    /\ ret.value.x = Fin(RoundHalfEven(Scale, TDen))

\* C8: when no site of the pair moves by at least tol, get_Q_from_struct
\* fails with an error and returns no number.
C8_EmptyPoolFails ==
    op = "get_Q_from_struct" /\ ~SomeSiteMoves(ground, excited, arg.tol)
    => ret.status = "error"

C8_Witness ==
    /\ op = "get_Q_from_struct"
    /\ Len(ground) = Len(excited) /\ Len(arg.struct) = Len(ground)
    /\ Len(ground) >= 1
    /\ ground # excited
    /\ ~SomeSiteMoves(ground, excited, arg.tol)
    /\ ret = Raise("ValueError")

\* the (site, axis) places that enter the pool
PoolPlaces(g, e, s, tol) ==
    {<<i, x>> \in (1..Len(s)) \X Axes : ~Closer(g[i], e[i], tol)}

PlaceValue(g, e, s, p) ==
    RoundedQuotient(s[p[1]].coords[p[2]] - g[p[1]].coords[p[2]],
                    e[p[1]].coords[p[2]] - g[p[1]].coords[p[2]])

\* how often the value v occurs in the pool (nan equals nothing, so each
\* nan occurs once)
Occurrences(g, e, s, tol, v) ==
    IF v = NaN THEN 1
    ELSE Cardinality({p \in PoolPlaces(g, e, s, tol) :
                        PlaceValue(g, e, s, p) = v})

\* the values of maximal occurrence
Modes(g, e, s, tol) ==
    LET V == {PlaceValue(g, e, s, p) : p \in PoolPlaces(g, e, s, tol)}
    IN  {v \in V : \A u \in V :
           Occurrences(g, e, s, tol, u) <= Occurrences(g, e, s, tol, v)}

\* C10: the consensus fraction is a pooled rounded value of maximal
\* occurrence, the smallest one when several share the maximum; it is a
\* function of the multiset of pooled values only.
C10_SmallestMode ==
    op = "get_Q_from_struct" /\ ret.status = "ok"
    => LET M == Modes(ground, excited, arg.struct, arg.tol)
       IN  /\ ret.value.x \in M
           /\ \A v \in M : v = ret.value.x \/ FloatLess(ret.value.x, v)

C10_Witness ==
    /\ op = "get_Q_from_struct" /\ ret.status = "ok"
    /\ Len(arg.struct) = 2
    /\ \E u, v \in Modes(ground, excited, arg.struct, arg.tol) :
         u[1] = 1 /\ v[1] = 1 /\ u # v
    /\ ret.value.x[1] = 1

--------------------------------------------------------------------------
(***************************************************************************)
(* Calls of get_cc_structures                                              *)
(***************************************************************************)
MaxDisp == 2

\* displacements, as numerators over TDen
Disps == {-1, 0, 1}

CallGetCC ==
    /\ op = "idle"
    /\ \E ds \in SeqsUpTo(Disps, MaxDisp), rz \in BOOLEAN :
         /\ op' = "get_cc_structures"
         /\ arg' = [displacements |-> ds, remove_zero |-> rz]
         /\ ret' = get_cc_structures(ground, excited, ds, rz)
    /\ UNCHANGED <<ground, excited, scanned, wswq, current, pstatus>>

NextCC == CallGetCC

SpecCC == InitGeom /\ [][NextCC]_vars

RECURSIVE WithoutZeros(_)
WithoutZeros(s) ==
    IF s = <<>> THEN <<>>
    ELSE IF Head(s) = 0 THEN WithoutZeros(Tail(s))
    ELSE <<Head(s)>> \o WithoutZeros(Tail(s))

\* the structure s lies at fraction k / TDen of the path from g to e
AtFraction(s, g, e, k) ==
    /\ Len(s) = Len(g)
    /\ \A i \in 1..Len(g) :
         /\ s[i].mass = g[i].mass
         /\ \A x \in Axes :
              TDen * (s[i].coords[x] - g[i].coords[x])
                  = k * (e[i].coords[x] - g[i].coords[x])

C6_WitnessKeepZero ==
    /\ op = "get_cc_structures" /\ ret.status = "ok"
    /\ ground # excited
    /\ ~arg.remove_zero
    /\ arg.displacements = <<1, 0>>
    /\ ret.value[1][2] = ground
    /\ ret.value[2][2] = excited

--------------------------------------------------------------------------
(***************************************************************************)
(* get_PES_from_vaspruns                                                   *)
(***************************************************************************)
MaxBatch == 2

\* What is read of a vasprun.xml: its last structure and its final energy.
\* The calculations of a batch sit on the path; t records the fraction.
Vasprun(g, e, k, energy) ==
    [structure |-> Image(g, e, k), final_energy |-> energy, t |-> k]

Vaspruns(g, e) ==
    {Vasprun(g, e, 0, -3), Vasprun(g, e, 1, 2), Vasprun(g, e, TDen, 0)}

\* the energies less the first of them
ShiftToFirst(es) == [i \in 1..Len(es) |-> es[i] - es[1]]

\* energy - np.min(energy)
ShiftToMin(es) ==
    LET m == SetMin({es[i] : i \in 1..Len(es)})
    IN  [i \in 1..Len(es) |-> es[i] - m]

get_PES_from_vaspruns(g, e, vrs, tol) ==
    LET num == Len(vrs)
        Q == [i \in 1..num |-> get_Q_from_struct(g, e, vrs[i].structure, tol)]
        failed == {i \in 1..num : Q[i].status = "error"}
        energy == [i \in 1..num |-> vrs[i].final_energy]
    IN  IF failed # {} THEN Q[SetMin(failed)]
        ELSE IF num = 0 THEN Raise("ValueError")
        ELSE Ok(<<[i \in 1..num |-> Q[i].value], ShiftToMin(energy)>>)

CallGetPES ==
    /\ op = "idle"
    /\ Len(ground) = Len(excited)
    /\ \E vrs \in SeqsUpTo(Vaspruns(ground, excited), MaxBatch) :
         /\ op' = "get_PES_from_vaspruns"
         /\ arg' = [vaspruns |-> vrs, tol |-> 1]
         /\ ret' = get_PES_from_vaspruns(ground, excited, vrs, 1)
    /\ UNCHANGED <<ground, excited, scanned, wswq, current, pstatus>>

NextPES == CallGetPES

SpecPES == InitGeom /\ [][NextPES]_vars

\* C9: for a non-empty batch, get_PES_from_vaspruns returns Q and energy as
\* long as the batch, entry k of both from the k-th output, every energy
\* >= 0 and some energy = 0 (energies keep their differences).
C9_ShiftedEnergies ==
    op = "get_PES_from_vaspruns" /\ ret.status = "ok"
    => LET vrs == arg.vaspruns
           Q == ret.value[1]
           energy == ret.value[2]
       IN  /\ Len(vrs) > 0
           /\ Len(Q) = Len(vrs) /\ Len(energy) = Len(vrs)
           /\ \A k \in 1..Len(vrs) :
                /\ Q[k] = Times(get_dQ(ground, excited),
                                Fin(RoundHalfEven(vrs[k].t * Scale, TDen)))
                /\ energy[k] >= 0
                /\ \A j \in 1..Len(vrs) :
                     energy[k] - energy[j]
                         = vrs[k].final_energy - vrs[j].final_energy
           /\ \E k \in 1..Len(vrs) : energy[k] = 0

C9_Witness ==
    /\ op = "get_PES_from_vaspruns" /\ ret.status = "ok"
    /\ Len(arg.vaspruns) = 2
    /\ arg.vaspruns[1].final_energy > arg.vaspruns[2].final_energy
    /\ arg.vaspruns[1].t < arg.vaspruns[2].t
    /\ ret.value[2] = <<2, 0>>

--------------------------------------------------------------------------
(***************************************************************************)
(* get_omega_from_PES                                                      *)
(***************************************************************************)
MaxSamples == 3

\* the parameters of the fitted function f(Q, omega, Q0, dE)
NParams == 3

\* a PES sample: a Q value and an energy
Samples == [Q : {0, 1}, energy : {0, 1}]

\* the Q0 argument: None, or a value the minimum is pinned to
Q0Choices ==
    {[pinned |-> FALSE, value |-> 0], [pinned |-> TRUE, value |-> 0],
     [pinned |-> TRUE, value |-> 1]}

\* bounds = (-inf, inf) lets curve_fit take method "lm"; the finite bounds
\* on Q0 make it take "trf"
FitMethod(Q0) == IF Q0.pinned THEN "trf" ELSE "lm"

\* curve_fit on m samples. "lm" (leastsq) rejects fewer samples than
\* parameters with a TypeError; "trf" has no such check. Otherwise the fit
\* runs and gives popt, whatever the Q values are: a rank-deficient
\* Jacobian (all Q equal) is a warning on the covariance, not an error.
curve_fit(m, method) ==
    IF method = "lm" /\ m < NParams THEN "TypeError" ELSE "popt"

\* ax is None: no plotting. The returned number is not computed here: it
\* stands as the expression of line 209.
get_omega_from_PES(pes, Q0) ==
    LET popt == curve_fit(Len(pes), FitMethod(Q0))
    IN  IF popt = "popt"
        THEN Ok("HBAR * popt[0] * sqrt(EV2J / (ANGS2M**2 * AMU2KG))")
        ELSE Raise(popt)

InitFit == ScanInit /\ GeomIdle

CallGetOmega ==
    /\ op = "idle"
    /\ \E n \in 1..MaxSamples :
         \E pes \in [1..n -> Samples], Q0 \in Q0Choices :
           /\ op' = "get_omega_from_PES"
           /\ arg' = [pes |-> pes, Q0 |-> Q0]
           /\ ret' = get_omega_from_PES(pes, Q0)
    /\ UNCHANGED <<ground, excited, scanned, wswq, current, pstatus>>

NextFit == CallGetOmega

SpecFit == InitFit /\ [][NextFit]_vars

\* fewer than 3 samples, or all Q equal
DegenerateSamples(pes) ==
    \/ Len(pes) < 3
    \/ \A i, j \in 1..Len(pes) : pes[i].Q = pes[j].Q

\* C7: get_omega_from_PES on fewer than 3 samples, or on samples whose Q
\* are all equal, fails with an error and returns no phonon energy, with Q0
\* free and with Q0 pinned.
C7_DegenerateFitFails ==
    op = "get_omega_from_PES" /\ DegenerateSamples(arg.pes)
    => ret.status = "error"

--------------------------------------------------------------------------
(***************************************************************************)
(* get_Wif_from_WSWQ                                                       *)
(***************************************************************************)
MaxWswqs == 2

\* WSWQ files, as their lines
FileA ==
    <<MarkerLine(<<1, 1>>), DataLine(<<1, 2>>, <<3, -4>>),
      DataLine(<<2, 2>>, <<0, 2>>)>>

FileB ==
    <<OtherLine, MarkerLine(<<1, 1>>), DataLine(<<1, 2>>, <<0, 2>>),
      DataLine(<<2, 2>>, <<3, -4>>), MarkerLine(<<1, 2>>),
      DataLine(<<1, 2>>, <<3, -4>>)>>

FileNoMarker == <<DataLine(<<1, 2>>, <<3, -4>>)>>

FileOneSection == <<MarkerLine(<<1, 2>>), DataLine(<<1, 2>>, <<0, 2>>)>>

Files == {FileA, FileB, FileNoMarker, FileOneSection}

\* the Q of a sample; never 0, so that the fitted abscissae are not all equal
SampleQs == {-2, -1, 1, 2}

\* bvr.eigenvalues[sp][kpoint-1][bi-1][0] of the initial vasprun.xml
Eigenvalue(spin, kpoint, bi) == IF bi = 1 THEN -2 ELSE 3

\* the integer square root of a perfect square
ISqrt(n) == CHOOSE r \in 0..n : r * r = n

\* np.abs of a complex number
CAbs(z) == ISqrt(z[1] * z[1] + z[2] * z[2])

RECURSIVE SumSeq(_)
SumSeq(s) == IF s = <<>> THEN 0 ELSE Head(s) + SumSeq(Tail(s))

\* np.polyfit(x, y, 1)[0]: the least-squares slope, as <<numerator,
\* denominator>>
Slope(x, y) ==
    LET n == Len(x)
        Sx == SumSeq(x)
        Sy == SumSeq(y)
        Sxy == SumSeq([i \in 1..n |-> x[i] * y[i]])
        Sxx == SumSeq([i \in 1..n |-> x[i] * x[i]])
    IN  <<n * Sxy - Sx * Sy, n * Sxx - Sx * Sx>>

\* matels[j, i] for sample i: sign(q) * |wswq[(spin+1, kpoint)][(bi, def_index)]|
Matel(sample, spin, kpoint, bi, def_index) ==
    LET w == read_WSWQ(sample.file)
    IN  IF w.status = "error" THEN w
        ELSE IF <<spin + 1, kpoint>> \notin DOMAIN w.value
        THEN Raise("KeyError")
        ELSE IF <<bi, def_index>> \notin DOMAIN w.value[<<spin + 1, kpoint>>]
        THEN Raise("KeyError")
        ELSE Ok(Sign(sample.q)
                  * CAbs(w.value[<<spin + 1, kpoint>>][<<bi, def_index>>]))

get_Wif_from_WSWQ(wswqs, def_index, bulk_index, spin, kpoint) ==
    LET Nw == Len(wswqs)
        Nbi == Len(bulk_index)
        deig == [i \in 1..Nbi |-> Abs(Eigenvalue(spin, kpoint, bulk_index[i]))]
        \* Q and each row of matels are np.zeros(Nw+1); the loop over the
        \* samples fills the first Nw entries
        Q == [i \in 1..(Nw + 1) |-> IF i <= Nw THEN wswqs[i].q ELSE 0]
        m == [j \in 1..Nbi |-> [i \in 1..Nw |->
                Matel(wswqs[i], spin, kpoint, bulk_index[j], def_index)]]
        failed == \E j \in 1..Nbi : \E i \in 1..Nw : m[j][i].status = "error"
        matels == [j \in 1..Nbi |-> [i \in 1..(Nw + 1) |->
                     IF i <= Nw THEN m[j][i].value ELSE 0]]
    IN  IF failed THEN Raise("Error")
        ELSE Ok([i \in 1..Nbi |->
                   [band |-> bulk_index[i],
                    Wif |-> <<deig[i] * Slope(Q, matels[i])[1],
                              Slope(Q, matels[i])[2]>>]])

InitWif == ScanInit /\ GeomIdle

CallGetWif ==
    /\ op = "idle"
    /\ \E n \in 1..MaxWswqs :
         \E wswqs \in [1..n -> [q : SampleQs, file : Files]],
            bulk_index \in {<<1>>, <<1, 2>>}, kpoint \in {1, 2} :
           /\ op' = "get_Wif_from_WSWQ"
           /\ arg' = [wswqs |-> wswqs, def_index |-> 2,
                      bulk_index |-> bulk_index, spin |-> 0,
                      kpoint |-> kpoint]
           /\ ret' = get_Wif_from_WSWQ(wswqs, 2, bulk_index, 0, kpoint)
    /\ UNCHANGED <<ground, excited, scanned, wswq, current, pstatus>>

NextWif == CallGetWif

SpecWif == InitWif /\ [][NextWif]_vars

\* the N points (Q_k, sign(Q_k) * |overlap_k(b, defect_band)|) of the
\* supplied samples, as the pair of their abscissae and ordinates
SamplePoints(a, bi) ==
    <<[k \in 1..Len(a.wswqs) |-> a.wswqs[k].q],
      [k \in 1..Len(a.wswqs) |->
         Sign(a.wswqs[k].q)
           * CAbs(read_WSWQ(a.wswqs[k].file).value
                    [<<a.spin + 1, a.kpoint>>][<<bi, a.def_index>>])]>>

\* C4: for every bulk band the returned Wif is |eigenvalue| times the
\* least-squares slope of the line fitted to exactly the N points of the
\* supplied samples (stated where that line is determined: the Q_k are
\* not all equal).
C4_SlopeOfSamplePoints ==
    op = "get_Wif_from_WSWQ" /\ ret.status = "ok"
    => \A i \in 1..Len(arg.bulk_index) :
         LET pts == SamplePoints(arg, arg.bulk_index[i])
             s == Slope(pts[1], pts[2])
             e == Abs(Eigenvalue(arg.spin, arg.kpoint, arg.bulk_index[i]))
             W == ret.value[i].Wif
         IN  /\ ret.value[i].band = arg.bulk_index[i]
             /\ (s[2] # 0 => W[1] * s[2] = e * s[1] * W[2])

==========================================================================
